---- MODULE Spec2Model ----
(***************************************************************************)
(* A model of my::vector (src/Vector.hpp): the pointer triple              *)
(* (m_first, m_last, m_end), the blocks handed out by the allocator, and   *)
(* every allocate / construct / destroy / deallocate call the member       *)
(* functions make, in the order the code makes them.                       *)
(*                                                                         *)
(* A slot of a block holds Raw (no object), a value of Values (a live      *)
(* object) or Unspec (a live object whose value is unspecified: it was     *)
(* moved from, or was built from storage that held no object).  The        *)
(* element type is one whose constructors may throw, so                    *)
(* std::move_if_noexcept copies and std::move leaves the source Unspec.    *)
(* Pointers are (block, index) pairs; index i of the code is slots[i+1].   *)
(***************************************************************************)
EXTENDS Integers, Sequences, FiniteSets, TLC

\* ---- bounds ----
MaxSize == 6        \* the value max_size() returns in the model
MaxCap == 4         \* calls other than the destructor are followed on vectors of at most this capacity
MaxPairCap == 2     \* calls that take a second vector are followed on vectors of at most this capacity
MaxSrcCap == 3      \* the source of a copy assignment is followed up to this capacity
MaxLen == 2         \* longest source sequence / count passed to a batch operation

\* The code never inspects an element: two values (and Unspec) are enough to
\* tell every misplaced, duplicated or lost element from a correct one.
Values == {1, 2}
Raw == 0
Unspec == 0 - 1
Null == 0
VecIds == {"a", "b"}
\* names for the blocks allocated at one time: a vector holds at most its old
\* block and the new one it is moving to
BlockIds == 1..(2 * Cardinality(VecIds))
DefaultVal == 1     \* the value of T()
DefaultAlloc == 0   \* the handle allocator_type() gives
Allocs == {0, 1}    \* the allocator handles a caller can pass

Max(x, y) == IF x >= y THEN x ELSE y
\* Bind(e, LAMBDA x : body) is "x = e; body": one statement after another
Bind(x, F(_)) == F(x)
Min(S) == CHOOSE x \in S : \A y \in S : x <= y
RECURSIVE SeqsUpTo(_)
SeqsUpTo(n) == IF n = 0 THEN {<<>>}
               ELSE SeqsUpTo(n - 1) \cup {Append(s, x) : s \in [1..(n - 1) -> Values], x \in Values}
Sources == SeqsUpTo(MaxLen)
Fill(n, x) == [t \in 1..n |-> x]

VARIABLES heap, vecs, allocs, leaked, last
vars == <<heap, vecs, allocs, leaked, last>>

\* ---- the allocator (std::allocator through allocator_traits) ----
max_size == MaxSize

InBlock(h, b, i) == b \in BlockIds /\ h[b].st = "alloc" /\ i >= 0 /\ i < Len(h[b].slots)
Peek(h, b, i) == IF InBlock(h, b, i) THEN h[b].slots[i + 1] ELSE Raw
Poke(h, b, i, x) == IF InBlock(h, b, i) THEN [h EXCEPT ![b].slots[i + 1] = x] ELSE h
\* the value an object built from slot content x gets
AsValue(x) == IF x = Raw THEN Unspec ELSE x
LiveCount(s) == Cardinality({t \in 1..Len(s) : s[t] # Raw})

\* allocate(alloc, n): throws for n > max_size(), when memory is exhausted, or
\* when it is the failAt-th throwing call of the operation; for n = 0 the result
\* is unspecified: a null pointer (zn) or a unique block.
allocate(c, n) ==
    LET free == {b \in BlockIds : c.heap[b].st = "free"} IN
    IF n > max_size \/ c.cnt + 1 = c.failAt \/ (free = {} /\ ~(n = 0 /\ c.zn))
    THEN [c EXCEPT !.cnt = @ + 1, !.ex = "bad_alloc",
                   !.log = Append(@, <<"allocate_throw", Null, n, 0>>)]
    ELSE IF n = 0 /\ c.zn
    THEN [c EXCEPT !.cnt = @ + 1, !.blk = Null, !.log = Append(@, <<"allocate", Null, 0, 0>>)]
    ELSE LET b == Min(free) IN
         [c EXCEPT !.cnt = @ + 1, !.blk = b,
                   !.heap = [@ EXCEPT ![b] = [st |-> "alloc", slots |-> Fill(n, Raw)]],
                   !.log = Append(@, <<"allocate", b, n, 0>>)]

\* deallocate(alloc, p, n): the 4th field of the log entry is the number of
\* objects still alive in the block; a block that is not allocated is logged
\* as deallocate_bad (double free or free of a pointer never allocated).
deallocate(c, b, n) ==
    IF b \in BlockIds /\ c.heap[b].st = "alloc"
    THEN [c EXCEPT !.heap = [@ EXCEPT ![b] = [st |-> "free", slots |-> <<>>]],
                   !.log = Append(@, <<"deallocate", b, n, LiveCount(c.heap[b].slots)>>)]
    ELSE [c EXCEPT !.log = Append(@, <<"deallocate_bad", b, n, 0>>)]

\* construct(alloc, p + i, x): throws when it is the failAt-th throwing call
\* (allocate or construct) of the operation; the 4th field of the log entry is the slot's content before the call.
construct(c, b, i, x) ==
    IF ~InBlock(c.heap, b, i)
    THEN [c EXCEPT !.cnt = @ + 1, !.log = Append(@, <<"construct_oob", b, i, 0>>)]
    ELSE IF c.cnt + 1 = c.failAt
    THEN [c EXCEPT !.cnt = @ + 1, !.ex = "ctor",
                   !.log = Append(@, <<"construct_throw", b, i, Peek(c.heap, b, i)>>)]
    ELSE [c EXCEPT !.cnt = @ + 1, !.heap = Poke(@, b, i, x),
                   !.log = Append(@, <<"construct", b, i, Peek(c.heap, b, i)>>)]

\* destroy(alloc, p + i): never throws
destroy(c, b, i) ==
    IF ~InBlock(c.heap, b, i)
    THEN [c EXCEPT !.log = Append(@, <<"destroy_oob", b, i, 0>>)]
    ELSE [c EXCEPT !.heap = Poke(@, b, i, Raw),
                   !.log = Append(@, <<"destroy", b, i, Peek(c.heap, b, i)>>)]

\* ---- loops shared by the member functions ----
\* for (; i < n; ++i) construct(alloc, p + base + i, vals[i]);  c.i is i at exit
RECURSIVE constructLoop(_, _, _, _, _)
constructLoop(c, b, base, vals, i) ==
    IF i >= Len(vals) THEN [c EXCEPT !.i = i]
    ELSE LET c1 == construct(c, b, base + i, vals[i + 1]) IN
         IF c1.ex # "none" THEN [c1 EXCEPT !.i = i]
         ELSE constructLoop(c1, b, base, vals, i + 1)

\* for (k; k > lo; --k) destroy(alloc, p + base + k - 1);
RECURSIVE destroyLoop(_, _, _, _, _)
destroyLoop(c, b, base, k, lo) ==
    IF k <= lo THEN c
    ELSE destroyLoop(destroy(c, b, base + k - 1), b, base, k - 1, lo)

\* destroy(alloc, p + i) for i = from, ..., to - 1, in this order
RECURSIVE destroyUp(_, _, _, _)
destroyUp(c, b, i, to) ==
    IF i >= to THEN c ELSE destroyUp(destroy(c, b, i), b, i + 1, to)

\* ---- the vector ----
NullVec == [st |-> "alive", first |-> Null, size |-> 0, cap |-> 0]
NoVec == [st |-> "none", first |-> Null, size |-> 0, cap |-> 0]
size(v) == v.size
capacity(v) == v.cap
\* the observable element sequence: (*this)[0] .. (*this)[size() - 1]
Elems(h, v) == [t \in 1..v.size |-> Peek(h, v.first, t - 1)]
SetPtrs(c, f, sz, cp) == [c EXCEPT !.vec = [st |-> "alive", first |-> f, size |-> sz, cap |-> cp]]

m_deallocate(c) ==
    IF c.vec.first # Null
    THEN SetPtrs(deallocate(c, c.vec.first, c.vec.cap), Null, 0, 0)
    ELSE c

\* a variant of clear that destroys first to last
clear_forward(c) ==
    IF c.vec.first # Null
    THEN SetPtrs(destroyUp(c, c.vec.first, 0, c.vec.size), c.vec.first, 0, c.vec.cap)
    ELSE c

clear(c) ==
    IF c.vec.first # Null
    THEN SetPtrs(destroyLoop(c, c.vec.first, 0, c.vec.size, 0), c.vec.first, 0, c.vec.cap)
    ELSE c

\* the elements of vector v as the copies made of them see them
OldVals(h, v) == [t \in 1..v.size |-> AsValue(Peek(h, v.first, t - 1))]

\* ---- variants of reserve, each differing from it in one step ----
\* returns early for n < capacity() only
reserve_strict(c, n) ==
    IF n > max_size THEN [c EXCEPT !.ex = "length_error"]
    ELSE IF n < c.vec.cap THEN c
    ELSE IF Max(n, c.vec.cap * 2) = 0 THEN SetPtrs(c, Null, 0, 0)
    ELSE Bind(c.vec, LAMBDA old : Bind(Max(n, c.vec.cap * 2), LAMBDA n2 :
         Bind(allocate(c, n2), LAMBDA c1 :
           IF c1.ex # "none" THEN c1
           ELSE Bind(constructLoop(c1, c1.blk, 0, OldVals(c1.heap, old), 0), LAMBDA c2 :
             IF c2.ex # "none"
             THEN deallocate(destroyLoop(c2, c1.blk, 0, c2.i, 0), c1.blk, n2)
             ELSE Bind(destroyLoop(c2, old.first, 0, old.size, 0), LAMBDA c3 :
                  SetPtrs(IF old.cap # 0 THEN deallocate(c3, old.first, old.cap) ELSE c3,
                          c1.blk, old.size, n2))))))

\* allocates exactly n, without the doubling
reserve_exact(c, n) ==
    IF n > max_size THEN [c EXCEPT !.ex = "length_error"]
    ELSE IF n <= c.vec.cap THEN c
    ELSE IF n = 0 THEN SetPtrs(c, Null, 0, 0)
    ELSE Bind(c.vec, LAMBDA old :
         Bind(allocate(c, n), LAMBDA c1 :
           IF c1.ex # "none" THEN c1
           ELSE Bind(constructLoop(c1, c1.blk, 0, OldVals(c1.heap, old), 0), LAMBDA c2 :
             IF c2.ex # "none"
             THEN deallocate(destroyLoop(c2, c1.blk, 0, c2.i, 0), c1.blk, n)
             ELSE Bind(destroyLoop(c2, old.first, 0, old.size, 0), LAMBDA c3 :
                  SetPtrs(IF old.cap # 0 THEN deallocate(c3, old.first, old.cap) ELSE c3,
                          c1.blk, old.size, n)))))

\* rolls a failed relocation back in construction order, first to last
reserve_forward(c, n) ==
    IF n > max_size THEN [c EXCEPT !.ex = "length_error"]
    ELSE IF n <= c.vec.cap THEN c
    ELSE IF Max(n, c.vec.cap * 2) = 0 THEN SetPtrs(c, Null, 0, 0)
    ELSE Bind(c.vec, LAMBDA old : Bind(Max(n, c.vec.cap * 2), LAMBDA n2 :
         Bind(allocate(c, n2), LAMBDA c1 :
           IF c1.ex # "none" THEN c1
           ELSE Bind(constructLoop(c1, c1.blk, 0, OldVals(c1.heap, old), 0), LAMBDA c2 :
             IF c2.ex # "none"
             THEN deallocate(destroyUp(c2, c1.blk, 0, c2.i), c1.blk, n2)
             ELSE Bind(destroyLoop(c2, old.first, 0, old.size, 0), LAMBDA c3 :
                  SetPtrs(IF old.cap # 0 THEN deallocate(c3, old.first, old.cap) ELSE c3,
                          c1.blk, old.size, n2))))))

\* deallocates the old block before destroying its elements
reserve_early_free(c, n) ==
    IF n > max_size THEN [c EXCEPT !.ex = "length_error"]
    ELSE IF n <= c.vec.cap THEN c
    ELSE IF Max(n, c.vec.cap * 2) = 0 THEN SetPtrs(c, Null, 0, 0)
    ELSE Bind(c.vec, LAMBDA old : Bind(Max(n, c.vec.cap * 2), LAMBDA n2 :
         Bind(allocate(c, n2), LAMBDA c1 :
           IF c1.ex # "none" THEN c1
           ELSE Bind(constructLoop(c1, c1.blk, 0, OldVals(c1.heap, old), 0), LAMBDA c2 :
             IF c2.ex # "none"
             THEN deallocate(destroyLoop(c2, c1.blk, 0, c2.i, 0), c1.blk, n2)
             ELSE Bind(IF old.cap # 0 THEN deallocate(c2, old.first, old.cap) ELSE c2, LAMBDA c3 :
                  SetPtrs(destroyLoop(c3, old.first, 0, old.size, 0),
                          c1.blk, old.size, n2))))))

\* without the test against max_size()
reserve_unchecked(c, n) ==
    IF n <= c.vec.cap THEN c
    ELSE IF Max(n, c.vec.cap * 2) = 0 THEN SetPtrs(c, Null, 0, 0)
    ELSE Bind(c.vec, LAMBDA old : Bind(Max(n, c.vec.cap * 2), LAMBDA n2 :
         Bind(allocate(c, n2), LAMBDA c1 :
           IF c1.ex # "none" THEN c1
           ELSE Bind(constructLoop(c1, c1.blk, 0, OldVals(c1.heap, old), 0), LAMBDA c2 :
             IF c2.ex # "none"
             THEN deallocate(destroyLoop(c2, c1.blk, 0, c2.i, 0), c1.blk, n2)
             ELSE Bind(destroyLoop(c2, old.first, 0, old.size, 0), LAMBDA c3 :
                  SetPtrs(IF old.cap # 0 THEN deallocate(c3, old.first, old.cap) ELSE c3,
                          c1.blk, old.size, n2))))))

reserve(c, n) ==
    IF n > max_size THEN [c EXCEPT !.ex = "length_error"]
    ELSE IF n <= c.vec.cap THEN c
    ELSE IF Max(n, c.vec.cap * 2) = 0 THEN SetPtrs(c, Null, 0, 0)
    ELSE Bind(c.vec, LAMBDA old : Bind(Max(n, c.vec.cap * 2), LAMBDA n2 :
         Bind(allocate(c, n2), LAMBDA c1 :
           IF c1.ex # "none" THEN c1
           ELSE Bind(constructLoop(c1, c1.blk, 0, OldVals(c1.heap, old), 0), LAMBDA c2 :
             IF c2.ex # "none"
             THEN deallocate(destroyLoop(c2, c1.blk, 0, c2.i, 0), c1.blk, n2)
             ELSE Bind(destroyLoop(c2, old.first, 0, old.size, 0), LAMBDA c3 :
                  SetPtrs(IF old.cap # 0 THEN deallocate(c3, old.first, old.cap) ELSE c3,
                          c1.blk, old.size, n2))))))

\* a variant of batchConstruct that rolls back first to last
batchConstruct_forward(c, vals) ==
    Bind(allocate(c, Len(vals)), LAMBDA c1 :
      IF c1.ex # "none" THEN c1
      ELSE Bind(constructLoop(SetPtrs(c1, c1.blk, 0, Len(vals)), c1.blk, 0, vals, 0), LAMBDA c2 :
        IF c2.ex # "none"
        THEN m_deallocate(destroyUp(c2, c1.blk, 0, c2.i))
        ELSE SetPtrs(c2, c1.blk, Len(vals), Len(vals))))

\* the body shared by the batch constructors and the assignment operators:
\* allocate n, construct n in order, roll back on a throw, set m_last
batchConstruct(c, vals) ==
    Bind(allocate(c, Len(vals)), LAMBDA c1 :
      IF c1.ex # "none" THEN c1
      ELSE Bind(constructLoop(SetPtrs(c1, c1.blk, 0, Len(vals)), c1.blk, 0, vals, 0), LAMBDA c2 :
        IF c2.ex # "none"
        THEN m_deallocate(destroyLoop(c2, c1.blk, 0, c2.i, 0))
        ELSE SetPtrs(c2, c1.blk, Len(vals), Len(vals))))

\* a variant of growFor that never grows
growFor_never(c, n) == c

\* std::move(m_first[src]) leaves a live source with an unspecified value
MovedFrom(c, b, src) ==
    IF Peek(c.heap, b, src) # Raw THEN [c EXCEPT !.heap = Poke(@, b, src, Unspec)] ELSE c

\* vector(vector&&): takes the pointers of other and nulls them
move_ctor(c) ==
    [SetPtrs(c, c.oth.first, c.oth.size, c.oth.cap) EXCEPT !.oth = NullVec]

\* for (; i < n; ++i) construct(alloc, m_first + i, std::move(other[i]));
RECURSIVE moveLoop(_, _, _, _, _)
moveLoop(c, b, src, n, i) ==
    IF i >= n THEN [c EXCEPT !.i = i]
    ELSE Bind(construct(c, b, i, AsValue(Peek(c.heap, src, i))), LAMBDA c1 :
           IF c1.ex # "none" THEN [c1 EXCEPT !.i = i]
           ELSE moveLoop(MovedFrom(c1, src, i), b, src, n, i + 1))

\* vector(vector&&, const Allocator&): builds its own block and moves each
\* element of other into it; other keeps its pointers
move_alloc_ctor(c) ==
    Bind(c.oth.size, LAMBDA n : Bind(allocate(c, n), LAMBDA c1 :
      IF c1.ex # "none" THEN c1
      ELSE Bind(moveLoop(c1, c1.blk, c.oth.first, n, 0), LAMBDA c2 :
        IF c2.ex # "none"
        THEN deallocate(destroyLoop(c2, c1.blk, 0, c2.i, 0), c1.blk, n)
        ELSE SetPtrs(c2, c1.blk, n, n))))

\* a variant of copy_assign that rolls back first to last
copy_assign_forward(c, vals) == batchConstruct_forward(m_deallocate(clear(c)), vals)

\* a variant of copy_assign that takes over the pointers of x
copy_assign_shallow(c, vals) ==
    Bind(m_deallocate(clear(c)), LAMBDA c1 :
      IF c.oth.st = "alive" THEN SetPtrs(c1, c.oth.first, c.oth.size, c.oth.cap)
      ELSE batchConstruct(c1, vals))

\* operator=(const vector&) with the elements vals of x, and operator=(il):
\* clear, m_deallocate, then as the batch constructors
copy_assign(c, vals) == batchConstruct(m_deallocate(clear(c)), vals)

\* a variant of move_assign that leaves x its pointers
move_assign_keep(c) ==
    Bind(m_deallocate(clear(c)), LAMBDA c1 : SetPtrs(c1, c.oth.first, c.oth.size, c.oth.cap))

\* operator=(vector&&)
move_assign(c) ==
    Bind(m_deallocate(clear(c)), LAMBDA c1 :
      [SetPtrs(c1, c.oth.first, c.oth.size, c.oth.cap) EXCEPT !.oth = NullVec])

\* a variant of swap that leaves the allocators where they are
swap_pointers(c) == [c EXCEPT !.vec = c.oth, !.oth = c.vec]

\* swap(other): the three pointers and alloc
swap(c) == [c EXCEPT !.vec = c.oth, !.oth = c.vec, !.al = c.oal, !.oal = c.al]

\* a variant of growFor that asks for one slot more than needed
growFor_early(c, n) == IF c.vec.size + n >= c.vec.cap THEN reserve(c, c.vec.size + n + 1) ELSE c

\* if (size() + n >= capacity()) reserve(size() + n);
growFor(c, n) == IF c.vec.size + n >= c.vec.cap THEN reserve(c, c.vec.size + n) ELSE c

\* a variant of push_back without the final m_last++
push_back_keep_last(c, x) ==
    Bind(growFor(c, 1), LAMBDA c1 :
      IF c1.ex # "none" THEN c1
      ELSE Bind(construct(c1, c1.vec.first, c1.vec.size, x), LAMBDA c2 :
        IF c2.ex # "none" THEN destroy(c2, c1.vec.first, c1.vec.size) ELSE c2))

\* push_back(const T&) and push_back(T&&): construct at m_last, then m_last++;
\* the catch block destroys the slot whose construction failed
push_back(c, x) ==
    Bind(growFor(c, 1), LAMBDA c1 :
      IF c1.ex # "none" THEN c1
      ELSE Bind(construct(c1, c1.vec.first, c1.vec.size, x), LAMBDA c2 :
        IF c2.ex # "none" THEN destroy(c2, c1.vec.first, c1.vec.size)
        ELSE SetPtrs(c2, c1.vec.first, c1.vec.size + 1, c1.vec.cap)))

\* emplace_back(args...): as push_back; returns a reference to the new element
emplace_back(c, x) ==
    Bind(growFor(c, 1), LAMBDA c1 :
      IF c1.ex # "none" THEN c1
      ELSE Bind(construct(c1, c1.vec.first, c1.vec.size, x), LAMBDA c2 :
        IF c2.ex # "none" THEN destroy(c2, c1.vec.first, c1.vec.size)
        ELSE [SetPtrs(c2, c1.vec.first, c1.vec.size + 1, c1.vec.cap) EXCEPT !.ret = c1.vec.size]))

\* a variant of pop_back that destroys before it decrements m_last
pop_back_late(c) ==
    SetPtrs(destroy(c, c.vec.first, c.vec.size), c.vec.first, c.vec.size - 1, c.vec.cap)

\* pop_back(): m_last--, then destroy(alloc, m_last)
pop_back(c) ==
    destroy(SetPtrs(c, c.vec.first, c.vec.size - 1, c.vec.cap), c.vec.first, c.vec.size - 1)

\* assign(first, last) and assign(il), which forwards to it: clear, reserve,
\* construct; m_last is not set after the constructions
assign_range(c, vals) ==
    Bind(reserve(clear(c), Len(vals)), LAMBDA c1 :
      IF c1.ex # "none" THEN c1
      ELSE Bind(constructLoop(c1, c1.vec.first, 0, vals, 0), LAMBDA c2 :
        IF c2.ex # "none" THEN destroyLoop(c2, c1.vec.first, 0, c2.i, 0) ELSE c2))

\* assign(n, u): the same, with n copies of u
assign_fill(c, n, u) ==
    Bind(reserve(clear(c), n), LAMBDA c1 :
      IF c1.ex # "none" THEN c1
      ELSE Bind(constructLoop(c1, c1.vec.first, 0, Fill(n, u), 0), LAMBDA c2 :
        IF c2.ex # "none" THEN destroyLoop(c2, c1.vec.first, 0, c2.i, 0) ELSE c2))

\* a variant of resize_grow that rolls back first to last
resize_grow_forward(c, n, x) ==
    Bind(c.vec.size, LAMBDA sz : Bind(reserve(c, n), LAMBDA c1 :
      IF c1.ex # "none" THEN c1
      ELSE Bind(constructLoop(c1, c1.vec.first, sz, Fill(n - sz, x), 0), LAMBDA c2 :
        IF c2.ex # "none" THEN destroyUp(c2, c1.vec.first, sz, sz + c2.i)
        ELSE SetPtrs(c2, c1.vec.first, n, c1.vec.cap))))

\* the growing branch shared by resize(n) and resize(n, c)
resize_grow(c, n, x) ==
    Bind(c.vec.size, LAMBDA sz : Bind(reserve(c, n), LAMBDA c1 :
      IF c1.ex # "none" THEN c1
      ELSE Bind(constructLoop(c1, c1.vec.first, sz, Fill(n - sz, x), 0), LAMBDA c2 :
        IF c2.ex # "none" THEN destroyLoop(c2, c1.vec.first, 0, sz + c2.i, sz)
        ELSE SetPtrs(c2, c1.vec.first, n, c1.vec.cap))))

\* resize(n).  Shrinking runs  for (i = sz; i != n; i++) destroy(m_first + i),
\* which walks upwards from sz and leaves the block: undefined behaviour.
\* ub = "skip": destroy of T is a no-op and the loop has no effect;
\* ub = "crash": the raw slots [sz, capacity) are destroyed and the first
\* access past the block ends the process.
resize(c, n, ub) ==
    IF n > max_size THEN [c EXCEPT !.ex = "length_error"]
    ELSE IF n = c.vec.size THEN c
    ELSE IF n < c.vec.size
    THEN IF ub = "skip" THEN SetPtrs(c, c.vec.first, n, c.vec.cap)
         ELSE [destroy(destroyUp(c, c.vec.first, c.vec.size, c.vec.cap), c.vec.first, c.vec.cap)
                  EXCEPT !.ex = "crash", !.vec.st = "crashed"]
    ELSE resize_grow(c, n, DefaultVal)

\* resize(n, c).  Shrinking runs  for (i = sz; i < n; i++), which never iterates.
resize_fill(c, n, x) ==
    IF n > max_size THEN [c EXCEPT !.ex = "length_error"]
    ELSE IF n = c.vec.size THEN c
    ELSE IF n < c.vec.size THEN SetPtrs(c, c.vec.first, n, c.vec.cap)
    ELSE resize_grow(c, n, x)

shrink_to_fit(c) ==
    IF c.vec.size = 0 THEN SetPtrs(c, Null, 0, 0)
    ELSE Bind(c.vec, LAMBDA old : Bind(allocate(c, c.vec.size), LAMBDA c1 :
      IF c1.ex # "none" THEN c1
      ELSE Bind(constructLoop(c1, c1.blk, 0, OldVals(c1.heap, old), 0), LAMBDA c2 :
        IF c2.ex # "none"
        THEN deallocate(destroyLoop(c2, c1.blk, 0, c2.i, 0), c1.blk, old.size)
        ELSE Bind(destroyLoop(c2, old.first, 0, old.size, 0), LAMBDA c3 :
             SetPtrs(IF old.cap # 0 THEN deallocate(c3, old.first, old.cap) ELSE c3,
                     c1.blk, old.size, old.size)))))

\* a variant of shiftRight that walks the tail first to last
RECURSIVE shiftRight_forward(_, _, _, _, _, _, _)
shiftRight_forward(c, b, old_size, n, j, mv, i) ==
    IF i >= old_size - j THEN [c EXCEPT !.i = i]
    ELSE Bind(construct(c, b, j + n + i, AsValue(Peek(c.heap, b, j + i))), LAMBDA c1 :
           IF c1.ex # "none" THEN [c1 EXCEPT !.i = i]
           ELSE shiftRight_forward(IF mv THEN MovedFrom(c1, b, j + i) ELSE c1,
                                   b, old_size, n, j, mv, i + 1))

\* for (i = 0; i < old_size - j; ++i)
\*     construct(alloc, m_last + n - 1 - i, [std::move](m_first[old_size - 1 - i]));
RECURSIVE shiftRight(_, _, _, _, _, _, _)
shiftRight(c, b, old_size, n, j, mv, i) ==
    IF i >= old_size - j THEN [c EXCEPT !.i = i]
    ELSE Bind(construct(c, b, old_size + n - 1 - i, AsValue(Peek(c.heap, b, old_size - 1 - i))),
              LAMBDA c1 :
                IF c1.ex # "none" THEN [c1 EXCEPT !.i = i]
                ELSE shiftRight(IF mv THEN MovedFrom(c1, b, old_size - 1 - i) ELSE c1,
                                b, old_size, n, j, mv, i + 1))

\* insert(position, x), insert(position, T&&) and emplace(position, args...):
\* the const T& overload copies the tail (mv = FALSE), the others move it
insert_one(c, j, x, mv) ==
    Bind(growFor(c, 1), LAMBDA c1 :
      IF c1.ex # "none" THEN c1
      ELSE Bind(c1.vec.first, LAMBDA b : Bind(c1.vec.size, LAMBDA old_size :
        Bind(shiftRight(c1, b, old_size, 1, j, mv, 0), LAMBDA c2 :
          IF c2.ex # "none" THEN destroyUp(c2, b, old_size + 1 - c2.i, old_size + 1)
          ELSE Bind(construct(c2, b, j, x), LAMBDA c3 :
            IF c3.ex # "none" THEN destroyUp(c3, b, j + 1, old_size + 1)
            ELSE [SetPtrs(c3, b, old_size + 1, c1.vec.cap) EXCEPT !.ret = j])))))

\* insert(position, n, x): the fill loop declares its own i, so the catch block
\* sees i = 0 and destroys none of the copies of x it constructed
insert_n(c, j, n, x) ==
    IF n = 0 THEN [c EXCEPT !.ret = j]
    ELSE Bind(growFor(c, n), LAMBDA c1 :
      IF c1.ex # "none" THEN c1
      ELSE Bind(c1.vec.first, LAMBDA b : Bind(c1.vec.size, LAMBDA old_size :
        Bind(shiftRight(c1, b, old_size, n, j, TRUE, 0), LAMBDA c2 :
          IF c2.ex # "none" THEN destroyUp(c2, b, old_size + n - c2.i, old_size + n)
          ELSE Bind(constructLoop(c2, b, j, Fill(n, x), 0), LAMBDA c3 :
            IF c3.ex # "none"
            THEN destroyUp(destroyLoop(c3, b, j, 0, 0), b, j + n, old_size + n)
            ELSE [SetPtrs(c3, b, old_size + n, c1.vec.cap) EXCEPT !.ret = j])))))

\* insert(position, first, last) and insert(position, il), which forwards to it
insert_range(c, j, vals) ==
    IF Len(vals) = 0 THEN [c EXCEPT !.ret = j]
    ELSE Bind(growFor(c, Len(vals)), LAMBDA c1 :
      IF c1.ex # "none" THEN c1
      ELSE Bind(c1.vec.first, LAMBDA b : Bind(c1.vec.size, LAMBDA old_size :
        Bind(shiftRight(c1, b, old_size, Len(vals), j, TRUE, 0), LAMBDA c2 :
          IF c2.ex # "none" THEN destroyUp(c2, b, old_size + Len(vals) - c2.i, old_size + Len(vals))
          ELSE Bind(constructLoop(c2, b, j, vals, 0), LAMBDA c3 :
            IF c3.ex # "none"
            THEN destroyUp(destroyLoop(c3, b, j, c3.i, 0), b, j + Len(vals), old_size + Len(vals))
            ELSE [SetPtrs(c3, b, old_size + Len(vals), c1.vec.cap) EXCEPT !.ret = j])))))

\* a variant of shiftLeft that always takes the next element, whatever d is
RECURSIVE shiftLeft_by1(_, _, _, _, _)
shiftLeft_by1(c, b, lim, d, i) ==
    IF i >= lim THEN [c EXCEPT !.i = i]
    ELSE Bind(construct(c, b, i, AsValue(Peek(c.heap, b, i + 1))), LAMBDA c1 :
           IF c1.ex # "none" THEN [c1 EXCEPT !.i = i]
           ELSE shiftLeft_by1(MovedFrom(c1, b, i + 1), b, lim, d, i + 1))

\* for (i = j; i < lim; ++i) construct(alloc, m_first + i, std::move(m_first[i + d]));
RECURSIVE shiftLeft(_, _, _, _, _)
shiftLeft(c, b, lim, d, i) ==
    IF i >= lim THEN [c EXCEPT !.i = i]
    ELSE Bind(construct(c, b, i, AsValue(Peek(c.heap, b, i + d))), LAMBDA c1 :
           IF c1.ex # "none" THEN [c1 EXCEPT !.i = i]
           ELSE shiftLeft(MovedFrom(c1, b, i + d), b, lim, d, i + 1))

\* erase(position), position = m_first + j
erase(c, j) ==
    IF j < 0 \/ j >= c.vec.size THEN [c EXCEPT !.ex = "out_of_range"]
    ELSE Bind(shiftLeft(c, c.vec.first, c.vec.size - 1, 1, j), LAMBDA c1 :
      IF c1.ex # "none" THEN c1
      ELSE [SetPtrs(destroy(c1, c.vec.first, c.vec.size - 1), c.vec.first,
                    c.vec.size - 1, c.vec.cap) EXCEPT !.ret = j])

\* erase(first, last), first = m_first + j, last = m_first + k
erase_range(c, j, k) ==
    IF j < 0 \/ k > c.vec.size \/ j >= k THEN [c EXCEPT !.ex = "out_of_range"]
    ELSE Bind(shiftLeft(c, c.vec.first, c.vec.size - (k - j), k - j, j), LAMBDA c1 :
      IF c1.ex # "none" THEN c1
      ELSE [SetPtrs(destroyUp(c1, c.vec.first, c.vec.size - (k - j), c.vec.size),
                    c.vec.first, c.vec.size - (k - j), c.vec.cap) EXCEPT !.ret = j])

\* a variant of at that accepts n = size()
at_inclusive(c, n) ==
    IF n > c.vec.size THEN [c EXCEPT !.ex = "out_of_range"]
    ELSE [c EXCEPT !.ret = Peek(c.heap, c.vec.first, n)]

\* at(n): c.ret is the element returned
at(c, n) ==
    IF n >= c.vec.size THEN [c EXCEPT !.ex = "out_of_range"]
    ELSE [c EXCEPT !.ret = Peek(c.heap, c.vec.first, n)]

\* ---- actions: one per public member function ----
\* last records the call just made: its name, arguments, how it ended (ex), what
\* it returned, its allocator calls in order (log), and the vectors before it (pre).
Slots(h, vec) == IF vec.first \in BlockIds THEN h[vec.first].slots ELSE <<>>
Snapshot == [v \in VecIds |-> [vec |-> vecs[v], elems |-> Elems(heap, vecs[v]),
                               slots |-> Slots(heap, vecs[v]), alloc |-> allocs[v]]]

Begin(v, f, zn) ==
    [heap |-> heap, vec |-> vecs[v], oth |-> NoVec, al |-> allocs[v], oal |-> DefaultAlloc,
     log |-> <<>>, cnt |-> 0, failAt |-> f,
     zn |-> zn, ex |-> "none", blk |-> Null, i |-> 0, ret |-> 0]
\* a call on v whose argument is the vector w
Begin2(v, w, f, zn) == [Begin(v, f, zn) EXCEPT !.oth = vecs[w], !.oal = allocs[w]]

\* A block no vector points to any more can never be read, written or freed
\* again: the model forgets its contents and its name, and remembers in
\* `leaked` that a block was lost.
Orphans(h, vs) == {b \in BlockIds : h[b].st = "alloc" /\ \A w \in VecIds : vs[w].first # b}
Forget(h, O) == [b \in BlockIds |-> IF b \in O THEN [st |-> "free", slots |-> <<>>] ELSE h[b]]

Commit(v, op, arg, c) ==
    /\ vecs' = [vecs EXCEPT ![v] = c.vec]
    /\ allocs' = [allocs EXCEPT ![v] = c.al]
    /\ heap' = Forget(c.heap, Orphans(c.heap, vecs'))
    /\ leaked' = (leaked \/ Orphans(c.heap, vecs') # {})
    /\ last' = [op |-> op, v |-> v, arg |-> arg, ex |-> c.ex, ret |-> c.ret,
                log |-> c.log, pre |-> Snapshot]

\* a call on v that may also change its argument, the vector w
Commit2(v, w, op, c) ==
    /\ vecs' = [vecs EXCEPT ![v] = c.vec, ![w] = c.oth]
    /\ allocs' = [allocs EXCEPT ![v] = c.al, ![w] = c.oal]
    /\ heap' = Forget(c.heap, Orphans(c.heap, vecs'))
    /\ leaked' = (leaked \/ Orphans(c.heap, vecs') # {})
    /\ last' = [op |-> op, v |-> v, arg |-> <<w>>, ex |-> c.ex, ret |-> c.ret,
                log |-> c.log, pre |-> Snapshot]

\* an object that was destroyed, or whose constructor threw
Gone(c) == [c EXCEPT !.vec = NoVec, !.al = DefaultAlloc]
\* the member initializer alloc(a)
WithAlloc(c, a) == [c EXCEPT !.al = a]

\* a constructor that throws leaves no object behind
CommitCtor(v, op, arg, c) ==
    Commit(v, op, arg, IF c.ex # "none" THEN Gone(c) ELSE c)

\* calls are made one at a time, by a process that has not crashed
Idle == [op |-> "idle", v |-> "a", arg |-> <<>>, ex |-> "none", ret |-> 0,
         log |-> <<>>,
         pre |-> [v \in VecIds |-> [vec |-> NoVec, elems |-> <<>>, slots |-> <<>>,
                                   alloc |-> DefaultAlloc]]]
Crashed == \E w \in VecIds : vecs[w].st = "crashed"
Alive(v) == last = Idle /\ vecs[v].st = "alive" /\ ~Crashed
\* [0, size) holds objects and [size, capacity) holds none
Partitioned(h, vec) ==
    \A i \in 0..(vec.cap - 1) : (Peek(h, vec.first, i) # Raw) <=> (i < vec.size)
\* Spec follows a vector whose slots are no longer partitioned only to its
\* destructor (any = FALSE); SpecAll follows every call on it (any = TRUE).
\* Both follow a vector that has grown beyond MaxCap only to its destructor.
Other(v) == CHOOSE w \in VecIds : w # v
\* Calls that take no second vector are followed while no second vector lives
\* and, in Spec, also beside a second vector while both are within MaxPairCap.
\* A vector built with an allocator of the caller is followed through the
\* calls that take a second vector and to its destructor.
Callable(v, any) ==
    /\ Alive(v) /\ (any \/ Partitioned(heap, vecs[v]))
    /\ \A w \in VecIds : allocs[w] = DefaultAlloc
    /\ IF vecs[Other(v)].st = "none" THEN vecs[v].cap <= MaxCap
       ELSE ~any /\ \A w \in VecIds : vecs[w].cap <= MaxPairCap
\* w can be the argument of a call
Usable(w, any) ==
    Alive(w) /\ vecs[w].cap <= MaxPairCap /\ (any \/ Partitioned(heap, vecs[w]))
\* w can be the source of a copy assignment
Copyable(w, any) ==
    Alive(w) /\ vecs[w].cap <= MaxSrcCap /\ (any \/ Partitioned(heap, vecs[w]))
Unborn(v) == last = Idle /\ vecs[v].st = "none" /\ ~Crashed

\* the call returns to its caller; the record of it is dropped
\* A block's name carries no information once the call that logged it is
\* forgotten: the block of vector "a" is renamed 1 and that of "b" 2.
Home(v) == IF v = "a" THEN 1 ELSE 2
Renamed(h, vs) ==
    [b \in BlockIds |->
        IF \E v \in VecIds : vs[v].first # Null /\ Home(v) = b
        THEN h[vs[CHOOSE v \in VecIds : vs[v].first # Null /\ Home(v) = b].first]
        ELSE [st |-> "free", slots |-> <<>>]]
Return ==
    /\ last # Idle
    /\ last' = Idle
    /\ heap' = Renamed(heap, vecs)
    /\ vecs' = [v \in VecIds |->
                  IF vecs[v].first # Null THEN [vecs[v] EXCEPT !.first = Home(v)] ELSE vecs[v]]
    /\ UNCHANGED <<allocs, leaked>>
\* which throwing call (allocate or construct) of the operation throws (0:
\* none), of the n such calls it makes when none throws
Fails(n) == 0..n
Counts == 0..(MaxSize + 1)

DefaultCtor(v) ==
    /\ Unborn(v)
    /\ CommitCtor(v, "vector()", <<>>, SetPtrs(Begin(v, 0, FALSE), Null, 0, 0))

SizedCtor(v) ==
    /\ Unborn(v)
    /\ \E n \in Counts : \E zn \in BOOLEAN :
         \E f \in Fails(batchConstruct(Begin(v, 0, zn), Fill(n, DefaultVal)).cnt) :
         CommitCtor(v, "vector(n)", <<n>>,
                    batchConstruct(Begin(v, f, zn), Fill(n, DefaultVal)))

FillCtor(v) ==
    /\ Unborn(v)
    /\ \E n \in Counts, x \in Values : \E zn \in BOOLEAN :
         \E f \in Fails(batchConstruct(Begin(v, 0, zn), Fill(n, x)).cnt) :
         CommitCtor(v, "vector(n,value)", <<n, x>>,
                    batchConstruct(Begin(v, f, zn), Fill(n, x)))

RangeCtor(v) ==
    /\ Unborn(v)
    /\ \E s \in Sources : \E zn \in BOOLEAN :
         \E f \in Fails(batchConstruct(Begin(v, 0, zn), s).cnt) :
         CommitCtor(v, "vector(first,last)", s, batchConstruct(Begin(v, f, zn), s))

InitListCtor(v) ==
    /\ Unborn(v)
    /\ \E il \in Sources : \E zn \in BOOLEAN :
         \E f \in Fails(batchConstruct(Begin(v, 0, zn), il).cnt) :
         CommitCtor(v, "vector(il)", il, batchConstruct(Begin(v, f, zn), il))

Dtor(v) ==
    /\ Alive(v)
    /\ Commit(v, "~vector", <<>>,
              Gone(m_deallocate(clear(Begin(v, 0, FALSE)))))

\* assign(first, last); assign(il) forwards to it with the list's range
AssignRange(v, any) ==
    /\ Callable(v, any)
    /\ \E s \in Sources : \E f \in Fails(assign_range(Begin(v, 0, FALSE), s).cnt) :
         Commit(v, "assign(first,last)", s, assign_range(Begin(v, f, FALSE), s))

AssignFill(v, any) ==
    /\ Callable(v, any)
    /\ \E n \in Counts, u \in Values : \E f \in Fails(assign_fill(Begin(v, 0, FALSE), n, u).cnt) :
         Commit(v, "assign(n,u)", <<n, u>>, assign_fill(Begin(v, f, FALSE), n, u))

Resize(v, any) ==
    /\ Callable(v, any)
    /\ \E n \in Counts : \E ub \in {"skip", "crash"} :
         \E f \in Fails(resize(Begin(v, 0, FALSE), n, ub).cnt) :
         Commit(v, "resize(n)", <<n>>, resize(Begin(v, f, FALSE), n, ub))

ResizeFill(v, any) ==
    /\ Callable(v, any)
    /\ \E n \in Counts, x \in Values : \E f \in Fails(resize_fill(Begin(v, 0, FALSE), n, x).cnt) :
         Commit(v, "resize(n,c)", <<n, x>>, resize_fill(Begin(v, f, FALSE), n, x))

Reserve(v, any) ==
    /\ Callable(v, any)
    /\ \E n \in Counts : \E f \in Fails(reserve(Begin(v, 0, FALSE), n).cnt) :
         Commit(v, "reserve", <<n>>, reserve(Begin(v, f, FALSE), n))

ShrinkToFit(v, any) ==
    /\ Callable(v, any)
    /\ \E f \in Fails(shrink_to_fit(Begin(v, 0, FALSE)).cnt) :
         Commit(v, "shrink_to_fit", <<>>, shrink_to_fit(Begin(v, f, FALSE)))

At(v, any) ==
    /\ Callable(v, any)
    /\ \E n \in Counts :
         Commit(v, "at", <<n>>, at(Begin(v, 0, FALSE), n))

EmplaceBack(v, any) ==
    /\ Callable(v, any)
    /\ \E x \in Values : \E f \in Fails(emplace_back(Begin(v, 0, FALSE), x).cnt) :
         Commit(v, "emplace_back", <<x>>, emplace_back(Begin(v, f, FALSE), x))

PushBack(v, any) ==
    /\ Callable(v, any)
    /\ \E x \in Values : \E f \in Fails(push_back(Begin(v, 0, FALSE), x).cnt) :
         Commit(v, "push_back", <<x>>, push_back(Begin(v, f, FALSE), x))

\* precondition: the vector is not empty
PopBack(v, any) ==
    /\ Callable(v, any)
    /\ vecs[v].size > 0
    /\ Commit(v, "pop_back", <<>>, pop_back(Begin(v, 0, FALSE)))

\* precondition of emplace and insert: begin() <= position <= end()
Emplace(v, any) ==
    /\ Callable(v, any)
    /\ \E j \in 0..vecs[v].size, x \in Values : \E f \in Fails(insert_one(Begin(v, 0, FALSE), j, x, TRUE).cnt) :
         Commit(v, "emplace", <<j, x>>, insert_one(Begin(v, f, FALSE), j, x, TRUE))

Insert(v, any) ==
    /\ Callable(v, any)
    /\ \E j \in 0..vecs[v].size, x \in Values : \E f \in Fails(insert_one(Begin(v, 0, FALSE), j, x, FALSE).cnt) :
         Commit(v, "insert(pos,x)", <<j, x>>, insert_one(Begin(v, f, FALSE), j, x, FALSE))

InsertMove(v, any) ==
    /\ Callable(v, any)
    /\ \E j \in 0..vecs[v].size, x \in Values : \E f \in Fails(insert_one(Begin(v, 0, FALSE), j, x, TRUE).cnt) :
         Commit(v, "insert(pos,T&&)", <<j, x>>, insert_one(Begin(v, f, FALSE), j, x, TRUE))

InsertN(v, any) ==
    /\ Callable(v, any)
    /\ \E j \in 0..vecs[v].size, n \in 0..MaxLen, x \in Values : \E f \in Fails(insert_n(Begin(v, 0, FALSE), j, n, x).cnt) :
         Commit(v, "insert(pos,n,x)", <<j, n, x>>, insert_n(Begin(v, f, FALSE), j, n, x))

\* insert(position, first, last); insert(position, il) forwards to it
InsertRange(v, any) ==
    /\ Callable(v, any)
    /\ \E j \in 0..vecs[v].size, s \in Sources : \E f \in Fails(insert_range(Begin(v, 0, FALSE), j, s).cnt) :
         Commit(v, "insert(pos,first,last)", <<j>> \o s, insert_range(Begin(v, f, FALSE), j, s))

Erase(v, any) ==
    /\ Callable(v, any)
    /\ \E j \in (0 - 1)..(vecs[v].size + 1) :
         Commit(v, "erase(pos)", <<j>>, erase(Begin(v, 0, FALSE), j))

EraseRange(v, any) ==
    /\ Callable(v, any)
    /\ \E j \in (0 - 1)..(vecs[v].size + 1), k \in (0 - 1)..(vecs[v].size + 1) :
         Commit(v, "erase(first,last)", <<j, k>>, erase_range(Begin(v, 0, FALSE), j, k))

Clear(v, any) ==
    /\ Callable(v, any)
    /\ Commit(v, "clear", <<>>, clear(Begin(v, 0, FALSE)))

\* operator=(il)
InitListAssign(v, any) ==
    /\ Callable(v, any)
    /\ \E il \in Sources : \E zn \in BOOLEAN :
         \E f \in Fails(copy_assign(Begin(v, 0, zn), il).cnt) :
         Commit(v, "operator=(il)", il, copy_assign(Begin(v, f, zn), il))

\* x = x, x = std::move(x): if (this != &x) skips the body
SelfAssign(v, any) ==
    /\ Callable(v, any)
    /\ \E op \in {"operator=(const vector&)", "operator=(vector&&)"} :
         Commit2(v, v, op, Begin2(v, v, 0, FALSE))

\* a second vector is constructed beside v
SecondCtor(v, any) ==
    /\ Copyable(v, any) /\ vecs[Other(v)].st = "none"
    /\ \E il \in Sources : \E zn \in BOOLEAN :
         \E f \in Fails(batchConstruct(Begin(Other(v), 0, zn), il).cnt) :
         CommitCtor(Other(v), "vector(il)", il, batchConstruct(Begin(Other(v), f, zn), il))

\* vector(const vector&) and vector(const vector&, const Allocator&)
CopyCtor(v, w, any) ==
    /\ vecs[v].st = "none" /\ Usable(w, any)
    /\ \E op \in {"vector(const vector&)", "vector(const vector&,a)"} :
       \E a \in IF op = "vector(const vector&)" THEN {DefaultAlloc} ELSE Allocs :
       \E zn \in BOOLEAN :
         \E f \in Fails(batchConstruct(Begin2(v, w, 0, zn), OldVals(heap, vecs[w])).cnt) :
         Commit2(v, w, op,
                 Bind(batchConstruct(WithAlloc(Begin2(v, w, f, zn), a), OldVals(heap, vecs[w])),
                      LAMBDA c : IF c.ex # "none" THEN Gone(c) ELSE c))

MoveCtor(v, w, any) ==
    /\ vecs[v].st = "none" /\ Usable(w, any)
    /\ Commit2(v, w, "vector(vector&&)", move_ctor(Begin2(v, w, 0, FALSE)))

MoveAllocCtor(v, w, any) ==
    /\ vecs[v].st = "none" /\ Usable(w, any)
    /\ \E a \in Allocs : \E zn \in BOOLEAN :
         \E f \in Fails(move_alloc_ctor(Begin2(v, w, 0, zn)).cnt) :
         Commit2(v, w, "vector(vector&&,a)",
                 Bind(move_alloc_ctor(WithAlloc(Begin2(v, w, f, zn), a)), LAMBDA c :
                      IF c.ex # "none" THEN Gone(c) ELSE c))

CopyAssign(v, w, any) ==
    /\ Usable(v, any) /\ Copyable(w, any)
    /\ \E zn \in BOOLEAN :
         \E f \in Fails(copy_assign(Begin2(v, w, 0, zn), OldVals(heap, vecs[w])).cnt) :
         Commit2(v, w, "operator=(const vector&)",
                 copy_assign(Begin2(v, w, f, zn), OldVals(heap, vecs[w])))

MoveAssign(v, w, any) ==
    /\ Usable(v, any) /\ Usable(w, any)
    /\ Commit2(v, w, "operator=(vector&&)", move_assign(Begin2(v, w, 0, FALSE)))

Swap(v, w, any) ==
    /\ Usable(v, any) /\ Usable(w, any)
    /\ Commit2(v, w, "swap", swap(Begin2(v, w, 0, FALSE)))

Init ==
    /\ heap = [b \in BlockIds |-> [st |-> "free", slots |-> <<>>]]
    /\ vecs = [v \in VecIds |-> NoVec]
    /\ allocs = [v \in VecIds |-> DefaultAlloc]
    /\ leaked = FALSE
    /\ last = Idle

Calls(v, any) ==
    \/ DefaultCtor(v)
    \/ SizedCtor(v)
    \/ FillCtor(v)
    \/ RangeCtor(v)
    \/ InitListCtor(v)
    \/ Dtor(v)
    \/ AssignRange(v, any)
    \/ AssignFill(v, any)
    \/ Resize(v, any)
    \/ ResizeFill(v, any)
    \/ Reserve(v, any)
    \/ ShrinkToFit(v, any)
    \/ At(v, any)
    \/ EmplaceBack(v, any)
    \/ PushBack(v, any)
    \/ PopBack(v, any)
    \/ Emplace(v, any)
    \/ Insert(v, any)
    \/ InsertMove(v, any)
    \/ InsertN(v, any)
    \/ InsertRange(v, any)
    \/ Erase(v, any)
    \/ EraseRange(v, any)
    \/ Clear(v, any)
    \/ InitListAssign(v, any)
    \/ SelfAssign(v, any)

\* the calls on v that take the vector w
PairCalls(v, w, any) ==
    \/ CopyCtor(v, w, any)
    \/ MoveCtor(v, w, any)
    \/ MoveAllocCtor(v, w, any)
    \/ CopyAssign(v, w, any)
    \/ MoveAssign(v, w, any)
    \/ Swap(v, w, any)

Step(any) ==
    \/ Return
    \/ Calls("a", any)
    \/ SecondCtor("a", any)
    \/ Dtor("b")
    \/ \E v \in VecIds : PairCalls(v, Other(v), any)

Next == Step(FALSE)
Spec == Init /\ [][Next]_vars

NextAll == Step(TRUE)
SpecAll == Init /\ [][NextAll]_vars

\* ---- properties ----
\* the call just made, the vector it was made on, before and after
Called(op) == last.op = op
Ok == last.ex = "none"
Pre == last.pre[last.v]
Now == vecs[last.v]
NowElems == Elems(heap, Now)
LogHas(kind) == \E t \in 1..Len(last.log) : last.log[t][1] = kind
LogCount(kind) == Cardinality({t \in 1..Len(last.log) : last.log[t][1] = kind})
Unchanged == Now = Pre.vec /\ Slots(heap, Now) = Pre.slots

\* C1: in every reachable state, also after a call that failed,
\* 0 <= size() <= capacity() <= max_size().
C1_SizeCapacityMaxSize ==
    \A v \in VecIds :
        /\ 0 <= size(vecs[v])
        /\ size(vecs[v]) <= capacity(vecs[v])
        /\ capacity(vecs[v]) <= max_size
\* an insert(pos, n, x) that reallocated up to max_size()
C1_Witness ==
    /\ Called("insert(pos,n,x)") /\ Ok
    /\ capacity(Pre.vec) < max_size /\ capacity(Now) = max_size
    /\ size(Now) = size(Pre.vec) + last.arg[2] /\ last.arg[2] > 0

\* C2: between calls, slot i of the owned block holds an object exactly when
\* i < size().
C2_Partitioned ==
    \A v \in VecIds : vecs[v].st = "alive" => Partitioned(heap, vecs[v])

\* C3: no block is deallocated twice, and once every vector is destroyed no
\* block is left allocated or lost.
C3_DeallocatedOnce ==
    /\ ~LogHas("deallocate_bad")
    /\ (\A v \in VecIds : vecs[v].st = "none") =>
           (~leaked /\ \A b \in BlockIds : heap[b].st = "free")

\* C4: a push_back(x) that does not fail makes the size one more and the
\* elements the old ones followed by x, with or without a reallocation.
C4_PushBack ==
    (Called("push_back") /\ Ok) =>
        /\ size(Now) = size(Pre.vec) + 1
        /\ NowElems = Append(Pre.elems, last.arg[1])
\* a push_back into a full vector of two elements, which reallocates
C4_Witness ==
    /\ Called("push_back") /\ Ok
    /\ size(Pre.vec) = 2 /\ capacity(Pre.vec) = 2
    /\ LogHas("allocate") /\ Now.first # Pre.vec.first

\* C5: reserve(n) with n <= capacity() makes no allocator call and changes
\* neither the block, the size, the capacity nor any slot.
C5_ReserveNoop ==
    (Called("reserve") /\ last.arg[1] <= capacity(Pre.vec)) =>
        Ok /\ last.log = <<>> /\ Unchanged
\* reserve(capacity()) on a vector that holds elements
C5_Witness ==
    /\ Called("reserve") /\ last.arg[1] = capacity(Pre.vec)
    /\ size(Pre.vec) >= 1

\* C6: a successful reserve(n) with capacity() < n <= max_size() makes the
\* capacity max(n, 2 * old capacity), which is n when the old capacity is 0,
\* and keeps the size and the elements.
C6_ReserveGrows ==
    (Called("reserve") /\ Ok /\ last.arg[1] > capacity(Pre.vec)) =>
        /\ last.arg[1] <= max_size
        /\ capacity(Now) = Max(last.arg[1], 2 * capacity(Pre.vec))
        /\ capacity(Pre.vec) = 0 => capacity(Now) = last.arg[1]
        /\ capacity(Now) >= last.arg[1]
        /\ size(Now) = size(Pre.vec)
        /\ NowElems = Pre.elems
\* reserve(3) on a full vector of two elements: the doubling wins
C6_Witness ==
    /\ Called("reserve") /\ Ok /\ last.arg[1] = 3
    /\ size(Pre.vec) = 2 /\ capacity(Pre.vec) = 2 /\ capacity(Now) = 4

\* the allocator calls of a reserve whose i-th relocation construct throws:
\* allocate, i constructs, the throw, i destroys last to first, deallocate
RollbackLog(b, n, i, e) ==
    <<<<"allocate", b, n, 0>>>>
    \o [t \in 1..i |-> <<"construct", b, t - 1, Raw>>]
    \o <<<<"construct_throw", b, i, Raw>>>>
    \o [t \in 1..i |-> <<"destroy", b, i - t, e[i - t + 1]>>]
    \o <<<<"deallocate", b, n, 0>>>>

\* C7: a reserve whose allocation fails, or whose i-th relocation construct
\* fails, destroys the i elements built in the new block last to first,
\* deallocates the new block, and leaves block, size, capacity and every
\* slot as before the call.
C7_ReserveStrong ==
    (Called("reserve") /\ last.ex \in {"bad_alloc", "ctor"}) =>
        /\ Unchanged
        /\ last.ex = "bad_alloc" =>
             last.log = <<<<"allocate_throw", Null,
                            Max(last.arg[1], 2 * capacity(Pre.vec)), 0>>>>
        /\ last.ex = "ctor" =>
             \E b \in BlockIds \ {Pre.vec.first}, i \in 0..(size(Pre.vec) - 1) :
                 last.log = RollbackLog(b, Max(last.arg[1], 2 * capacity(Pre.vec)),
                                        i, Pre.elems)
\* the third relocation fails: two elements of the new block are destroyed
C7_Witness ==
    /\ Called("reserve") /\ last.ex = "ctor"
    /\ LogCount("construct") = 2 /\ LogCount("destroy") = 2

\* C8: a push_back or emplace_back in which a constructor fails leaves size,
\* capacity and elements as before the call.
C8_PushBackStrong ==
    (last.op \in {"push_back", "emplace_back"} /\ last.ex = "ctor") =>
        /\ size(Now) = size(Pre.vec)
        /\ capacity(Now) = capacity(Pre.vec)
        /\ NowElems = Pre.elems

\* the elements a call to insert inserts, and the index it inserts at
Inserted ==
    IF last.op \in {"insert(pos,x)", "insert(pos,T&&)"} THEN <<last.arg[2]>>
    ELSE IF last.op = "insert(pos,n,x)" THEN Fill(last.arg[2], last.arg[3])
    ELSE Tail(last.arg)
InsertForms == {"insert(pos,x)", "insert(pos,T&&)", "insert(pos,n,x)", "insert(pos,first,last)"}

\* C9: a successful insert of k elements at index j of s gives
\* s[0..j) ++ inserted ++ s[j..), size + k, and returns index j.
C9_Insert ==
    (last.op \in InsertForms /\ Ok) =>
        /\ NowElems = SubSeq(Pre.elems, 1, last.arg[1]) \o Inserted
                      \o SubSeq(Pre.elems, last.arg[1] + 1, size(Pre.vec))
        /\ size(Now) = size(Pre.vec) + Len(Inserted)
        /\ last.ret = last.arg[1]
\* two copies inserted at index 1 of three elements, as in {1,2,3} -> {1,9,9,2,3}
C9_Witness ==
    /\ Called("insert(pos,n,x)") /\ Ok
    /\ size(Pre.vec) = 3 /\ last.arg[1] = 1 /\ last.arg[2] = 2
    /\ Pre.elems[2] # Pre.elems[3] /\ Pre.elems[2] # last.arg[3]
    /\ size(Now) = 5

\* C10: erase(first, last) over [j, k), 0 <= j < k <= size, succeeds, gives
\* s[0..j) ++ s[k..), size - (k - j), the same capacity, and returns index j;
\* erase(pos) is the case k = j + 1.
C10_Erase ==
    /\ Called("erase(first,last)") =>
         LET j == last.arg[1]  k == last.arg[2] IN
         (0 <= j /\ j < k /\ k <= size(Pre.vec)) =>
            /\ Ok
            /\ NowElems = SubSeq(Pre.elems, 1, j) \o SubSeq(Pre.elems, k + 1, size(Pre.vec))
            /\ size(Now) = size(Pre.vec) - (k - j)
            /\ capacity(Now) = capacity(Pre.vec)
            /\ last.ret = j
    /\ Called("erase(pos)") =>
         LET j == last.arg[1] IN
         (0 <= j /\ j < size(Pre.vec)) =>
            /\ Ok
            /\ NowElems = SubSeq(Pre.elems, 1, j) \o SubSeq(Pre.elems, j + 2, size(Pre.vec))
            /\ size(Now) = size(Pre.vec) - 1
            /\ capacity(Now) = capacity(Pre.vec)
            /\ last.ret = j
\* indices [1, 3) erased from four elements, the last of which moves down by two
C10_Witness ==
    /\ Called("erase(first,last)") /\ Ok
    /\ size(Pre.vec) = 4 /\ last.arg = <<1, 3>>
    /\ Pre.elems[4] # Pre.elems[3] /\ Pre.elems[4] # Pre.elems[2]
    /\ size(Now) = 2

\* C11: erase throws out_of_range exactly when its argument lies outside the
\* live range, and then changes nothing; erase(first, last) with
\* begin <= first <= last <= end, the empty range included, does not throw.
C11_EraseOutOfRange ==
    /\ Called("erase(pos)") =>
         /\ (last.ex = "out_of_range") <=>
                (last.arg[1] < 0 \/ last.arg[1] >= size(Pre.vec))
         /\ last.ex = "out_of_range" => Unchanged /\ last.log = <<>>
    /\ (Called("erase(first,last)") /\ last.arg[1] <= last.arg[2]) =>
         /\ (last.ex = "out_of_range") <=>
                (last.arg[1] < 0 \/ last.arg[2] > size(Pre.vec))
         /\ last.ex = "out_of_range" => Unchanged /\ last.log = <<>>

\* how many times the call destroyed slot i of block b
Destroyed(b, i) ==
    Cardinality({t \in 1..Len(last.log) : last.log[t][1] = "destroy"
                                          /\ last.log[t][2] = b /\ last.log[t][3] = i})

\* C12: resize(n) and resize(n, v) with n < size() destroy the elements at
\* [n, old size), each once, and nothing else; size() becomes n, capacity()
\* and the elements [0, n) stay.
C12_ResizeShrinks ==
    (last.op \in {"resize(n)", "resize(n,c)"} /\ last.arg[1] < size(Pre.vec)) =>
        /\ Ok
        /\ \A i \in last.arg[1]..(size(Pre.vec) - 1) : Destroyed(Pre.vec.first, i) = 1
        /\ Len(last.log) = size(Pre.vec) - last.arg[1]
        /\ size(Now) = last.arg[1]
        /\ capacity(Now) = capacity(Pre.vec)
        /\ NowElems = SubSeq(Pre.elems, 1, last.arg[1])

\* where in the log of the call a construct threw
ThrowAt == CHOOSE t \in 1..Len(last.log) : last.log[t][1] = "construct_throw"

\* C13: a successful resize(n, v) with size() < n gives size() = n, the old
\* elements followed by copies of v; when the construction of a new element
\* fails, the new elements built so far are destroyed last to first and size()
\* and the old elements are as before.
C13_ResizeGrows ==
    (Called("resize(n,c)") /\ last.arg[1] > size(Pre.vec)) =>
        /\ Ok => /\ last.arg[1] <= max_size
                 /\ size(Now) = last.arg[1]
                 /\ NowElems = Pre.elems \o Fill(last.arg[1] - size(Pre.vec), last.arg[2])
        /\ last.ex = "ctor" =>
             /\ size(Now) = size(Pre.vec)
             /\ NowElems = Pre.elems
             /\ Partitioned(heap, Now)
             /\ last.log[ThrowAt][3] >= size(Pre.vec) =>
                  /\ last.log[ThrowAt][2] = Now.first
                  /\ SubSeq(last.log, ThrowAt + 1, Len(last.log)) =
                       [u \in 1..(last.log[ThrowAt][3] - size(Pre.vec)) |->
                          <<"destroy", Now.first, last.log[ThrowAt][3] - u, last.arg[2]>>]
\* the third new element fails after a reallocation: two are destroyed
C13_Witness ==
    /\ Called("resize(n,c)") /\ last.ex = "ctor"
    /\ size(Pre.vec) >= 1 /\ LogHas("allocate")
    /\ last.log[ThrowAt][3] = size(Pre.vec) + 2

\* the sequence a call to assign is given
Assigned ==
    IF last.op = "assign(n,u)" THEN Fill(last.arg[1], last.arg[2]) ELSE last.arg

\* C14: after a successful assign(n, u), assign(first, last) or assign(il) the
\* vector holds exactly the source: size() is its length and element i its
\* i-th element.
C14_Assign ==
    (last.op \in {"assign(n,u)", "assign(first,last)"} /\ Ok) =>
        /\ size(Now) = Len(Assigned)
        /\ NowElems = Assigned

\* the call deallocated the block the vector owned before it, once
FreedOld ==
    Pre.vec.first # Null =>
        Cardinality({t \in 1..Len(last.log) : last.log[t][1] = "deallocate"
                                              /\ last.log[t][2] = Pre.vec.first}) = 1

\* C15: a successful shrink_to_fit on a vector of size N leaves capacity() = N
\* and the elements as they were, and has deallocated the previous block; for
\* N = 0 the vector owns no block afterwards.
C15_ShrinkToFit ==
    (Called("shrink_to_fit") /\ Ok) =>
        /\ capacity(Now) = size(Pre.vec)
        /\ size(Now) = size(Pre.vec)
        /\ NowElems = Pre.elems
        /\ FreedOld
        /\ ~LogHas("deallocate_bad")
        /\ size(Pre.vec) = 0 => Now.first = Null

\* C16: clear() destroys every element once, from index N - 1 down to 0, and
\* does nothing else; size() becomes 0, capacity() and the block stay, and it
\* does not throw.
C16_Clear ==
    Called("clear") =>
        /\ Ok
        /\ last.log = [u \in 1..size(Pre.vec) |->
                         <<"destroy", Pre.vec.first, size(Pre.vec) - u,
                           Pre.elems[size(Pre.vec) - u + 1]>>]
        /\ size(Now) = 0
        /\ capacity(Now) = capacity(Pre.vec)
        /\ Now.first = Pre.vec.first
        /\ \A i \in 0..(capacity(Now) - 1) : Peek(heap, Now.first, i) = Raw
\* three elements cleared in a block with room for more
C16_Witness ==
    /\ Called("clear") /\ size(Pre.vec) = 3 /\ capacity(Pre.vec) = 4
    /\ Pre.elems[1] # Pre.elems[3]

\* C17: after a failed insert the size is the one before the call, the slots
\* [0, size()) hold objects, the slots [size(), capacity()) hold none, and the
\* call destroyed no slot twice and none that held no object.
C17_InsertFails ==
    (last.op \in InsertForms /\ ~Ok) =>
        /\ size(Now) = size(Pre.vec)
        /\ Partitioned(heap, Now)
        /\ \A b \in BlockIds, i \in 0..(MaxSize - 1) : Destroyed(b, i) <= 1
        /\ \A t \in 1..Len(last.log) : last.log[t][1] = "destroy" => last.log[t][4] # Raw

BatchCtors == {"vector(n)", "vector(n,value)", "vector(first,last)", "vector(il)",
               "vector(const vector&)", "vector(const vector&,a)"}
\* the elements a batch constructor is asked to build
CtorSource ==
    IF last.op = "vector(n)" THEN Fill(last.arg[1], DefaultVal)
    ELSE IF last.op = "vector(n,value)" THEN Fill(last.arg[1], last.arg[2])
    ELSE IF last.op \in {"vector(first,last)", "vector(il)"} THEN last.arg
    ELSE last.pre[last.arg[1]].elems

\* C18: when the construction of element i of a batch constructor throws, the
\* i elements built before it are destroyed last to first, each once, the
\* block the constructor allocated is deallocated, and no vector and no
\* object is left.
C18_CtorRollback ==
    (last.op \in BatchCtors /\ last.ex = "ctor") =>
        /\ vecs[last.v] = NoVec
        /\ \E b \in BlockIds, i \in 0..(Len(CtorSource) - 1) :
              /\ last.log = RollbackLog(b, Len(CtorSource), i, CtorSource)
              /\ heap[b].st = "free"
\* vector(4, value) whose third construction throws: two elements are destroyed
C18_Witness ==
    /\ Called("vector(n,value)") /\ last.ex = "ctor" /\ last.arg[1] = 4
    /\ last.log[ThrowAt][3] = 2 /\ LogCount("destroy") = 2

Copies == {"vector(const vector&)", "vector(const vector&,a)", "operator=(const vector&)"}
\* the calls that are allowed to change their argument
Takes == {"vector(vector&&)", "vector(vector&&,a)", "operator=(vector&&)", "swap"}
PairOps == Copies \cup Takes
Arg == IF last.op \in PairOps THEN last.arg[1] ELSE last.v

\* C19: after a copy construction or copy assignment from a distinct vector
\* the two vectors hold equal sequences in distinct blocks; no block belongs
\* to two vectors; and a call on one vector that does not take the other by
\* rvalue or swap leaves the other's size, capacity, block and slots as they
\* were.
C19_CopyIndependent ==
    /\ (last.op \in Copies /\ Ok /\ Arg # last.v) =>
          /\ NowElems = last.pre[Arg].elems
          /\ NowElems = Elems(heap, vecs[Arg])
          /\ Now.first # Null => Now.first # vecs[Arg].first
    /\ \A v \in VecIds :
          (vecs[v].st = "alive" /\ vecs[v].first # Null) => vecs[v].first # vecs[Other(v)].first
    /\ (last.op # "idle" /\ ~(last.op \in Takes /\ Arg = Other(last.v))) =>
          /\ vecs[Other(last.v)] = last.pre[Other(last.v)].vec
          /\ Slots(heap, vecs[Other(last.v)]) = last.pre[Other(last.v)].slots
\* a = b where a held one element in its own block and b holds two
C19_Witness ==
    /\ Called("operator=(const vector&)") /\ Ok /\ Arg # last.v
    /\ Len(Pre.elems) = 1 /\ Len(last.pre[Arg].elems) = 2
    /\ Pre.vec.first # last.pre[Arg].vec.first
    /\ Len(NowElems) = 2 /\ Now.first # vecs[Arg].first
\* a call that changes one vector beside a second one holding equal elements
C19_LaterCall ==
    /\ Called("push_back") /\ Ok /\ vecs[Other(last.v)].st = "alive"
    /\ Len(Pre.elems) = 2 /\ Pre.elems = last.pre[Other(last.v)].elems
    /\ Len(NowElems) = 3

Moves == {"vector(vector&&)", "operator=(vector&&)"}
\* the calls the target's former elements and block receive in operator=(vector&&)
ReleaseLog(vec, slots) ==
    IF vec.first = Null THEN <<>>
    ELSE [t \in 1..vec.size |-> <<"destroy", vec.first, vec.size - t, slots[vec.size - t + 1]>>]
         \o << <<"deallocate", vec.first, vec.cap, 0>> >>

\* C20: move construction and move assignment from a distinct vector give the
\* target the source's block, size, capacity and slots with no element
\* constructed or destroyed in that block, and leave the source with size 0,
\* capacity 0 and no block, which its destructor accepts without any call;
\* move assignment destroys the target's former elements, each once, and
\* deallocates its former block once.
C20_Move ==
    /\ (last.op \in Moves /\ Arg # last.v) =>
          /\ Ok
          /\ Now = last.pre[Arg].vec
          /\ Slots(heap, Now) = last.pre[Arg].slots
          /\ vecs[Arg] = NullVec
          /\ \A t \in 1..Len(last.log) :
                last.log[t][1] # "construct" /\ last.log[t][2] # Now.first
          /\ last.log = IF Called("vector(vector&&)") THEN <<>>
                        ELSE ReleaseLog(Pre.vec, Pre.slots)
    /\ (Called("~vector") /\ Pre.vec = NullVec) => (last.log = <<>> /\ Ok)
\* a = std::move(b) where a held two elements and b holds one in its own block
C20_Witness ==
    /\ Called("operator=(vector&&)") /\ Arg # last.v
    /\ Len(Pre.elems) = 2 /\ Len(last.pre[Arg].elems) = 1
    /\ Len(NowElems) = 1 /\ Now.first = last.pre[Arg].vec.first
    /\ LogCount("destroy") = 2 /\ LogCount("deallocate") = 1

\* C21: vector(vector&&, a) that succeeds leaves the source with size 0 and
\* gives the target the source's former elements in order.
C21_MoveAllocCtor ==
    (Called("vector(vector&&,a)") /\ Ok) =>
        /\ size(vecs[Arg]) = 0
        /\ NowElems = last.pre[Arg].elems
\* the part of C21 about the target alone
C21_TargetElems ==
    (Called("vector(vector&&,a)") /\ Ok) => NowElems = last.pre[Arg].elems

\* C22: swap exchanges the two vectors' block, size, capacity, slots and
\* allocator, makes no allocator call and never fails; a second swap gives
\* both vectors their state before the first.
C22_Swap ==
    Called("swap") =>
        /\ Ok /\ last.log = <<>>
        /\ Now = last.pre[Arg].vec /\ vecs[Arg] = Pre.vec
        /\ Slots(heap, Now) = last.pre[Arg].slots /\ Slots(heap, vecs[Arg]) = Pre.slots
        /\ allocs[last.v] = last.pre[Arg].alloc /\ allocs[Arg] = Pre.alloc
        /\ Bind(swap(Begin2(last.v, Arg, 0, FALSE)), LAMBDA c :
              /\ c.vec = Pre.vec /\ c.oth = last.pre[Arg].vec
              /\ c.al = Pre.alloc /\ c.oal = last.pre[Arg].alloc
              /\ c.heap = heap /\ c.log = <<>>)
\* a swap of a vector of two elements with one of one element in another
\* block and with another allocator
C22_Witness ==
    /\ Called("swap") /\ Len(Pre.elems) = 2 /\ Len(last.pre[Arg].elems) = 1
    /\ Pre.alloc # last.pre[Arg].alloc
    /\ Len(NowElems) = 1 /\ Len(Elems(heap, vecs[Arg])) = 2
    /\ Now.first # Pre.vec.first

\* C23: at(n) throws out_of_range exactly when n >= size() and otherwise
\* returns element n; either way the vector and its block are as before and
\* no allocator call is made.
C23_At ==
    Called("at") =>
        /\ last.ex = (IF last.arg[1] >= size(Pre.vec) THEN "out_of_range" ELSE "none")
        /\ Ok => last.ret = Pre.elems[last.arg[1] + 1]
        /\ Unchanged /\ last.log = <<>>
\* at(size()) on a vector of two elements
C23_Witness ==
    /\ Called("at") /\ size(Pre.vec) = 2 /\ last.arg[1] = 2
    /\ last.ex = "out_of_range" /\ Unchanged
\* at(0) on an empty vector
C23_Empty == Called("at") /\ size(Pre.vec) = 0 /\ last.arg[1] = 0 /\ last.ex = "out_of_range"
\* at(1) on a vector of two elements returns the second
C23_Returns == Called("at") /\ size(Pre.vec) = 2 /\ last.arg[1] = 1 /\ Ok /\ last.ret = Pre.elems[2]

\* C24: reserve(n), resize(n) and resize(n, c) with n > max_size() throw
\* length_error without any allocator call and leave the vector and every
\* slot of its block unchanged.
C24_LengthError ==
    (last.op \in {"reserve", "resize(n)", "resize(n,c)"} /\ last.arg[1] > max_size) =>
        /\ last.ex = "length_error"
        /\ last.log = <<>>
        /\ Unchanged
\* resize(max_size() + 1, c) on a vector of two elements
C24_Witness ==
    /\ Called("resize(n,c)") /\ last.arg[1] = max_size + 1 /\ size(Pre.vec) = 2
    /\ last.ex = "length_error" /\ size(Now) = 2

\* C25: a copy assignment from a distinct vector that fails (allocation, or
\* the copy of element i) has released the target's former elements and block,
\* destroyed the i copies last to first and deallocated the new block; the
\* target is left with size 0, capacity 0 and no block and the source is
\* unchanged.  A self-assignment makes no call and changes nothing.
C25_CopyAssignBasic ==
    /\ (Called("operator=(const vector&)") /\ Arg # last.v /\ ~Ok) =>
          /\ Now = NullVec
          /\ vecs[Arg] = last.pre[Arg].vec
          /\ Slots(heap, vecs[Arg]) = last.pre[Arg].slots
          /\ IF last.ex = "bad_alloc"
             THEN last.log = ReleaseLog(Pre.vec, Pre.slots)
                             \o <<<<"allocate_throw", Null, Len(last.pre[Arg].elems), 0>>>>
             ELSE \E b \in BlockIds, i \in 0..(Len(last.pre[Arg].elems) - 1) :
                     /\ last.log = ReleaseLog(Pre.vec, Pre.slots)
                                   \o RollbackLog(b, Len(last.pre[Arg].elems), i,
                                                  last.pre[Arg].elems)
                     /\ heap[b].st = "free"
    /\ (Called("operator=(const vector&)") /\ Arg = last.v) =>
          (Ok /\ Unchanged /\ last.log = <<>>)
\* b = a fails on the third of a's three elements: two copies are destroyed
C25_Witness ==
    /\ Called("operator=(const vector&)") /\ Arg # last.v /\ last.ex = "ctor"
    /\ Len(last.pre[Arg].elems) = 3 /\ Len(Pre.elems) = 1
    /\ last.log[ThrowAt][3] = 2 /\ LogCount("destroy") = 3
    /\ Now = NullVec
\* a = a on a vector of two elements
C25_Self ==
    Called("operator=(const vector&)") /\ Arg = last.v /\ Len(Pre.elems) = 2 /\ Unchanged

\* C26: insert, emplace and erase call construct only on raw slots.
C26_ConstructOnRaw ==
    (last.op \in InsertForms \cup {"emplace", "erase(pos)", "erase(first,last)"}) =>
        \A t \in 1..Len(last.log) :
            last.log[t][1] \in {"construct", "construct_throw"} => last.log[t][4] = Raw

\* C27: every destroy call of every operation is made on a slot that holds an
\* object at that moment, inside the block.
C27_DestroyOnLive ==
    \A t \in 1..Len(last.log) :
        /\ last.log[t][1] # "destroy_oob"
        /\ last.log[t][1] = "destroy" => last.log[t][4] # Raw

\* the allocator calls of a reserve that moves the n elements e of block old
\* (capacity oc) into block b of capacity n2
ReallocLog(old, oc, e, b, n2) ==
    <<<<"allocate", b, n2, 0>>>>
    \o [t \in 1..Len(e) |-> <<"construct", b, t - 1, Raw>>]
    \o [t \in 1..Len(e) |-> <<"destroy", old, Len(e) - t, e[Len(e) - t + 1]>>]
    \o (IF old # Null THEN <<<<"deallocate", old, oc, 0>>>> ELSE <<>>)

Reallocated == LogHas("allocate") \/ LogHas("allocate_throw") \/ LogHas("deallocate")
\* C29: push_back and emplace_back with size() < capacity() make no allocate
\* or deallocate call and keep capacity() and the block; with
\* size() = capacity() they reallocate, and when the call succeeds the
\* capacity has become max(size() + 1, 2 * capacity()).
C29_GrowthTrigger ==
    (last.op \in {"push_back", "emplace_back"}) =>
        IF size(Pre.vec) < capacity(Pre.vec)
        THEN /\ ~Reallocated
             /\ capacity(Now) = capacity(Pre.vec) /\ Now.first = Pre.vec.first
        ELSE /\ Reallocated \/ last.ex = "length_error"
             /\ Ok => capacity(Now) = Max(size(Pre.vec) + 1, 2 * capacity(Pre.vec))
\* push_back into a vector with exactly one free slot
C29_Witness ==
    /\ Called("push_back") /\ Ok
    /\ size(Pre.vec) = 1 /\ capacity(Pre.vec) = 2
    /\ ~Reallocated /\ capacity(Now) = 2 /\ size(Now) = 2 /\ Now.first = Pre.vec.first
\* emplace_back into a full vector of two elements
C29_Full ==
    /\ Called("emplace_back") /\ Ok /\ size(Pre.vec) = 2 /\ capacity(Pre.vec) = 2
    /\ capacity(Now) = 4 /\ LogHas("allocate") /\ LogHas("deallocate")

\* C30: pop_back on a vector that is not empty makes exactly one allocator
\* call, destroy of the last element, never fails, makes the size one less and
\* keeps the capacity, the block and the other elements; applied after a
\* successful push_back it gives back the size and the elements the vector
\* had before the push_back.
C30_PopBack ==
    /\ Called("pop_back") =>
          /\ Ok
          /\ last.log = <<<<"destroy", Pre.vec.first, size(Pre.vec) - 1,
                           Pre.elems[size(Pre.vec)]>>>>
          /\ size(Now) = size(Pre.vec) - 1
          /\ capacity(Now) = capacity(Pre.vec) /\ Now.first = Pre.vec.first
          /\ NowElems = SubSeq(Pre.elems, 1, size(Pre.vec) - 1)
          /\ Peek(heap, Now.first, size(Now)) = Raw
    /\ (Called("push_back") /\ Ok) =>
          Bind(pop_back(Begin(last.v, 0, FALSE)), LAMBDA c :
              /\ c.ex = "none"
              /\ size(c.vec) = size(Pre.vec)
              /\ Elems(c.heap, c.vec) = Pre.elems)
\* pop_back on a vector of two elements
C30_Witness ==
    /\ Called("pop_back") /\ Ok /\ size(Pre.vec) = 2
    /\ size(Now) = 1 /\ NowElems = <<Pre.elems[1]>> /\ LogCount("destroy") = 1
====
